---- MODULE Spec2Model ----
(***************************************************************************)
(* goping: a command-line ICMP echo utility (src/goping.go).               *)
(*                                                                         *)
(* The model follows the main goroutine statement by statement (pc), the   *)
(* receive goroutine that every sendPing spawns (task), and the signal     *)
(* goroutine of closeHandler (handler).  Probes are numbered 1, 2, ... in  *)
(* the order in which main calls ping; cur is the number of the probe in   *)
(* progress.  Each sendPing call makes its own result channel c and its    *)
(* own buffer replyBytes, so both are indexed by the probe number.         *)
(***************************************************************************)
EXTENDS Integers, Sequences, FiniteSets, TLC

\* Bounds of the model.
MaxProbes == 3
MaxIters == 2

\* Program constants.
DefaultIters == -1
TimeoutLen == -1
MinHeaderLen == 4
ICMPTypeEchoReply == 0
ICMPTypeEcho == 8
Pid == 7
SeqNo == 1

ProbeIds == 1..MaxProbes

\* createICMPMessage: type, code, two checksum bytes, and the Echo body:
\* identifier (os.Getpid() & 0xffff) and sequence number, two bytes each.
EchoRequest == <<ICMPTypeEcho, 0, 0, 0, 0, Pid, 0, SeqNo>>

\* The messages the raw socket may deliver.  ParseMessage does not verify
\* the checksum.  An Echo Reply repeats identifier and sequence number of
\* its request; the second one answers another process.  Type 3 is
\* Destination Unreachable, a type other than Echo Reply; only its header
\* is kept.
WellFormed ==
    { <<ICMPTypeEchoReply, 0, 0, 0, 0, Pid, 0, SeqNo>>,
      <<ICMPTypeEchoReply, 0, 0, 0, 0, Pid + 1, 0, SeqNo>>,
      <<ICMPTypeEchoReply, 3, 0, 0, 0, Pid, 0, SeqNo>>,
      <<3, 0, 0, 0>>,
      <<3, 1, 0, 0>> }

TooShort ==
    { <<ICMPTypeEchoReply, 0>> }

WirePackets ==
    WellFormed \cup TooShort

VARIABLES
    proc,          \* "running", "returned", "exit0", "exit1", "killed"
    pc,            \* position of the main goroutine
    hasArg,        \* flag.Arg(0) # ""
    iters,         \* *iters
    i,             \* loop variable of the finite loop
    totalPackets,  \* pl.totalPackets
    lostPackets,   \* pl.lostPackets
    cur,           \* number of calls of ping so far
    conn,          \* conn[k]: the PacketConn of probe k
    err,           \* sendPing's own err variable (set by WriteTo)
    task,          \* task[k]: the receive goroutine of probe k
    res,           \* res[k]: the readPacket that goroutine k sends on c
    replyBytes,    \* replyBytes[k]: what ReadFrom stored in probe k's buffer
    r,             \* the readPacket sendPing returns (rp in ping)
    outcome,       \* outcome[k]: the select branches taken by probe k
    out,           \* lines printed so far
    handler,       \* the goroutine of closeHandler
    sigLost,       \* a signal was dropped by signal.Notify
    parsedIP,      \* parsedIP of main: "unset" or "addr"
    stderr         \* what log.Fatal wrote: "" or the failed operation

vars == <<proc, pc, hasArg, iters, i, totalPackets, lostPackets, cur, conn,
          err, task, res, replyBytes, r, outcome, out, handler, sigLost,
          parsedIP, stderr>>

\* The zero value of readPacket (addr and dur are not modelled).
ZeroPacket == [lenMsg |-> 0, msg |-> <<>>, err |-> FALSE]

Line(k, text, val) == [probe |-> k, text |-> text, val |-> val]

Init ==
    /\ proc = "running"
    /\ pc = "start"
    /\ hasArg \in BOOLEAN
    /\ iters \in DefaultIters..MaxIters
    /\ i = 0
    /\ totalPackets = 0
    /\ lostPackets = 0
    /\ cur = 0
    /\ conn = [k \in ProbeIds |-> "none"]
    /\ err = FALSE
    /\ task = [k \in ProbeIds |-> "none"]
    /\ res = [k \in ProbeIds |-> ZeroPacket]
    /\ replyBytes = [k \in ProbeIds |-> <<>>]
    /\ r = ZeroPacket
    /\ outcome = [k \in ProbeIds |-> {}]
    /\ out = <<>>
    /\ handler = "none"
    /\ sigLost = FALSE
    /\ parsedIP = "unset"
    /\ stderr = ""

----------------------------------------------------------------------------
\* Pure helpers.

\* icmp.ParseMessage: fails on fewer than 4 bytes, otherwise reads type and
\* code from the first two bytes.
ParseFails(b) == Len(b) < MinHeaderLen

ParseMessage(b) == [Type |-> b[1], Code |-> b[2]]

\* math.Ceil of the rational n/d (d > 0).
Ceil(n, d) == -((-n) \div d)

\* printPingReply line 153: the quotient is taken on the two ints, and only
\* the quotient is converted to float64, multiplied and rounded up.
LossPercent(lost, total) == Ceil((lost \div total) * 100, 1)

\* Variants of line 69 that forget the increment, or count a probe twice.
RecordAttemptSkipped(t) == t

RecordAttemptTwice(t) == t + 2

\* ping line 69.
RecordAttempt(t) == t + 1

\* A variant of line 133 that counts a loss twice.
RecordLossTwice(l) == l + 2

\* A variant of line 133 that forgets to count the loss.
RecordLossSkipped(l) == l

\* sendPing line 133.
RecordLoss(l) == l + 1

\* sendPing lines 134-136: the value returned on the timer branch.
TimeoutPacket == [ZeroPacket EXCEPT !.lenMsg = TimeoutLen]

\* A variant of line 78 that also takes an empty read for a timeout.
IsTimeoutResultOrEmpty(rp) == rp.lenMsg < 1

\* A variant of line 78 with the test inverted.
IsTimeoutResultInverted(rp) == rp.lenMsg # TimeoutLen

\* ping line 78.
IsTimeoutResult(rp) == rp.lenMsg = TimeoutLen

\* A variant of line 25 that goes on without a target.
HasTargetAlways(a) == TRUE

\* main line 25: ip # "".
HasTarget(a) == a

\* A variant of line 39 that takes -1 for a count.
InfiniteBelowDefault(n) == n < DefaultIters

\* main line 39.
Infinite(n) == n < 0

\* A variant of line 47 that runs the loop once more.
LoopCondInclusive(n, limit) == n <= limit

\* main line 47.
LoopCond(n, limit) == n < limit

\* A variant in which all probes share one result channel.
SendersShared(k) == 1..k

\* The goroutines that hold the sending end of the channel c that probe k
\* selects on: c is made afresh in every sendPing call (line 116) and is
\* captured only by the goroutine spawned in that call (lines 118-125).
Senders(k) == {k}

\* A variant of ping without the deferred Close.
CloseConnMissing(c) == c

\* The deferred channel.Close() of ping (line 74).
CloseConn(c) == "closed"

\* The lines of printPingReply (lines 154-164) for a parsed message.
ReplyLines(k, rm, loss) ==
    (IF rm.Type # ICMPTypeEchoReply
        THEN <<Line(k, "Expecting echo reply", rm.Type)>>
        ELSE <<>>)
    \o (CASE rm.Code = 0 -> <<Line(k, "Reply from", loss)>>
          [] rm.Code = 1 -> <<Line(k, "Could not reach host", 0)>>
          [] OTHER -> <<Line(k, "Received code", rm.Code)>>)

----------------------------------------------------------------------------
\* The main goroutine.

\* A variant that logs the error with log.Print and goes on.
LogOnly == "running"

\* The state of the process after log.Fatal: os.Exit(1).
ExitOnFatal == "exit1"

\* log.Fatal(err) for a failure of operation op: the error is written to
\* the standard error and the process exits; deferred calls do not run.
Fatal(op) ==
    /\ proc' = ExitOnFatal
    /\ stderr' = op
    /\ UNCHANGED <<pc, i, totalPackets, lostPackets, cur, conn, err, task,
                   res, replyBytes, r, outcome, out, parsedIP>>

\* main lines 21-29.
ParseArgs ==
    /\ proc = "running" /\ pc = "start"
    /\ IF HasTarget(hasArg)
          THEN /\ pc' = "closeHandler"
               /\ UNCHANGED <<proc, out>>
          ELSE /\ out' = Append(out, Line(0, "Usage", 0))
               /\ proc' = "returned"
               /\ pc' = pc
    /\ UNCHANGED <<hasArg, iters, i, totalPackets, lostPackets, cur, conn, err,
                   task, res, replyBytes, r, outcome, handler, sigLost, parsedIP,
                   stderr>>

\* closeHandler lines 179-188: Notify is installed and the goroutine is
\* started; the goroutine has not yet reached its receive.
CloseHandler ==
    /\ proc = "running" /\ pc = "closeHandler"
    /\ handler' = "spawned"
    /\ pc' = "parseIP"
    /\ UNCHANGED <<proc, hasArg, iters, i, totalPackets, lostPackets, cur,
                   conn, err, task, res, replyBytes, r, outcome, out, sigLost, parsedIP,
                   stderr>>

\* parseIP lines 55-66: resolution succeeds or is fatal.
ParseIP ==
    /\ proc = "running" /\ pc = "parseIP"
    /\ \/ /\ parsedIP' = "addr"
          /\ pc' = "banner"
          /\ UNCHANGED <<proc, i, totalPackets, lostPackets, cur, conn, err,
                         task, res, replyBytes, r, outcome, out, stderr>>
       \/ Fatal("resolve")
    /\ UNCHANGED <<hasArg, iters, handler, sigLost>>

\* main lines 34-40, 46-47: the counters are created, the banner is printed.
Banner ==
    /\ proc = "running" /\ pc = "banner"
    /\ totalPackets' = 0
    /\ lostPackets' = 0
    /\ i' = 0
    /\ out' = Append(out, Line(0, "Pinging", iters))
    /\ pc' = "loop"
    /\ UNCHANGED <<proc, hasArg, iters, cur, conn, err, task, res, replyBytes,
                   r, outcome, handler, sigLost, parsedIP,
                   stderr>>

\* main lines 41 and 47: the loop test; main returns when the finite loop
\* is over.
LoopTest ==
    /\ proc = "running" /\ pc = "loop"
    /\ IF Infinite(iters) \/ LoopCond(i, iters)
          THEN /\ cur < MaxProbes
               /\ pc' = "sleep"
               /\ proc' = proc
          ELSE /\ proc' = "returned"
               /\ pc' = pc
    /\ UNCHANGED <<hasArg, iters, i, totalPackets, lostPackets, cur, conn, err,
                   task, res, replyBytes, r, outcome, out, handler, sigLost, parsedIP,
                   stderr>>

\* main lines 42-43 and 48-49: the sleep is over and ping is called.
SleepAndCall ==
    /\ proc = "running" /\ pc = "sleep"
    /\ cur' = cur + 1
    /\ pc' = "ping"
    /\ UNCHANGED <<proc, hasArg, iters, i, totalPackets, lostPackets, conn,
                   err, task, res, replyBytes, r, outcome, out, handler,
                   sigLost, parsedIP,
                   stderr>>

\* ping line 69.
PingCount ==
    /\ proc = "running" /\ pc = "ping"
    /\ totalPackets' = RecordAttempt(totalPackets)
    /\ pc' = "listen"
    /\ UNCHANGED <<proc, hasArg, iters, i, lostPackets, cur, conn, err, task,
                   res, replyBytes, r, outcome, out, handler, sigLost, parsedIP,
                   stderr>>

\* ping lines 70-76: ListenPacket opens the transport or is fatal.
Listen ==
    /\ proc = "running" /\ pc = "listen"
    /\ \/ /\ conn' = [conn EXCEPT ![cur] = "open"]
          /\ pc' = "write"
          /\ UNCHANGED <<proc, i, totalPackets, lostPackets, cur, err, task,
                         res, replyBytes, r, outcome, out,
                         stderr, parsedIP>>
       \/ Fatal("listen")
    /\ UNCHANGED <<hasArg, iters, handler, sigLost>>

\* sendPing lines 107-112: WriteTo sets err; a failure is fatal.
Write ==
    /\ proc = "running" /\ pc = "write"
    /\ \/ /\ err' = FALSE
          /\ pc' = "spawn"
          /\ UNCHANGED <<proc, i, totalPackets, lostPackets, cur, conn, task,
                         res, replyBytes, r, outcome, out,
                         stderr, parsedIP>>
       \/ Fatal("write")
    /\ UNCHANGED <<hasArg, iters, handler, sigLost>>

\* sendPing lines 114-125: the buffer and the channel are made and the
\* receive goroutine is started.
Spawn ==
    /\ proc = "running" /\ pc = "spawn"
    /\ task' = [task EXCEPT ![cur] = "reading"]
    /\ r' = ZeroPacket
    /\ pc' = "select"
    /\ UNCHANGED <<proc, hasArg, iters, i, totalPackets, lostPackets, cur,
                   conn, err, res, replyBytes, outcome, out, handler, sigLost, parsedIP,
                   stderr>>

\* sendPing lines 127-130: the receive on c meets a goroutine blocked in
\* its send on c (the channel is unbuffered); that goroutine then ends, and
\* its readPacket with it.
SelectReceive ==
    /\ proc = "running" /\ pc = "select"
    /\ \E j \in Senders(cur) :
          /\ task[j] = "sending"
          /\ r' = res[j]
          /\ task' = [task EXCEPT ![j] = "done"]
          /\ res' = [res EXCEPT ![j] = ZeroPacket]
    /\ outcome' = [outcome EXCEPT ![cur] = @ \cup {"Success"}]
    /\ pc' = "after"
    /\ UNCHANGED <<proc, hasArg, iters, i, totalPackets, lostPackets, cur,
                   conn, err, replyBytes, out, handler, sigLost, parsedIP,
                   stderr>>

\* sendPing lines 132-136: the timer fires.
SelectTimeout ==
    /\ proc = "running" /\ pc = "select"
    /\ lostPackets' = RecordLoss(lostPackets)
    /\ r' = TimeoutPacket
    /\ outcome' = [outcome EXCEPT ![cur] = @ \cup {"Timeout"}]
    /\ pc' = "check"
    /\ UNCHANGED <<proc, hasArg, iters, i, totalPackets, cur, conn, err, task,
                   res, replyBytes, out, handler, sigLost, parsedIP,
                   stderr>>

\* sendPing lines 139-145: the err tested here is the one WriteTo set, not
\* the err of the received readPacket.
AfterSelect ==
    /\ proc = "running" /\ pc = "after"
    /\ IF err
          THEN Fatal("write")
          ELSE /\ r' = [r EXCEPT !.msg = SubSeq(replyBytes[cur], 1, r.lenMsg)]
               /\ pc' = "check"
               /\ UNCHANGED <<proc, i, totalPackets, lostPackets, cur, conn,
                              err, task, res, replyBytes, outcome, out,
                         stderr, parsedIP>>
    /\ UNCHANGED <<hasArg, iters, handler, sigLost>>

\* ping lines 78-81: printTimeout and return, or go on to the decoding.
CheckResult ==
    /\ proc = "running" /\ pc = "check"
    /\ IF IsTimeoutResult(r)
          THEN /\ out' = Append(out, Line(cur, "Request timed out.", 0))
               /\ pc' = "close"
          ELSE /\ pc' = "parse"
               /\ out' = out
    /\ UNCHANGED <<proc, hasArg, iters, i, totalPackets, lostPackets, cur,
                   conn, err, task, res, replyBytes, r, outcome, handler,
                   sigLost, parsedIP,
                   stderr>>

\* ping lines 83-86: a decode failure is fatal.
Parse ==
    /\ proc = "running" /\ pc = "parse"
    /\ IF ParseFails(r.msg)
          THEN Fatal("decode")
          ELSE /\ pc' = "print"
               /\ UNCHANGED <<proc, i, totalPackets, lostPackets, cur, conn,
                              err, task, res, replyBytes, r, outcome, out,
                         stderr, parsedIP>>
    /\ UNCHANGED <<hasArg, iters, handler, sigLost>>

\* ping line 88, printPingReply lines 152-165.  An integer division by zero
\* panics, which ends the process with status 2.
PrintReply ==
    /\ proc = "running" /\ pc = "print"
    /\ IF totalPackets = 0
          THEN /\ proc' = "exit2"
               /\ UNCHANGED <<pc, out>>
          ELSE /\ out' = out \o ReplyLines(cur, ParseMessage(r.msg),
                                           LossPercent(lostPackets, totalPackets))
               /\ pc' = "close"
               /\ proc' = proc
    /\ UNCHANGED <<hasArg, iters, i, totalPackets, lostPackets, cur, conn, err,
                   task, res, replyBytes, r, outcome, handler, sigLost, parsedIP,
                   stderr>>

\* ping returns (lines 81, 89): the deferred Close runs, and the loop of
\* main goes to its next iteration (line 47: i++).  The locals of ping and
\* sendPing are gone; the buffer lives on while its goroutine does.
Close ==
    /\ proc = "running" /\ pc = "close"
    /\ conn' = [conn EXCEPT ![cur] = CloseConn(@)]
    /\ r' = ZeroPacket
    /\ replyBytes' = IF task[cur] = "done"
                        THEN [replyBytes EXCEPT ![cur] = <<>>]
                        ELSE replyBytes
    /\ i' = IF Infinite(iters) THEN i ELSE i + 1
    /\ pc' = "loop"
    /\ UNCHANGED <<proc, hasArg, iters, totalPackets, lostPackets, cur, err,
                   task, res, outcome, out, handler, sigLost, parsedIP,
                   stderr>>

Main ==
    \/ ParseArgs \/ CloseHandler \/ ParseIP \/ Banner \/ LoopTest
    \/ SleepAndCall \/ PingCount \/ Listen \/ Write \/ Spawn
    \/ SelectReceive \/ SelectTimeout \/ AfterSelect \/ CheckResult
    \/ Parse \/ PrintReply \/ Close

----------------------------------------------------------------------------
\* The receive goroutine of probe k (sendPing lines 118-125).

\* ReadFrom returns a packet, whatever the raw ICMP socket delivers, and
\* stores it in the buffer.  The goroutine then blocks in its send on c.
TaskRead(k) ==
    /\ proc = "running"
    /\ task[k] = "reading" /\ conn[k] = "open"
    /\ \E p \in WirePackets :
          /\ replyBytes' = [replyBytes EXCEPT ![k] = p]
          /\ res' = [res EXCEPT ![k] = [ZeroPacket EXCEPT !.lenMsg = Len(p)]]
    /\ task' = [task EXCEPT ![k] = "sending"]
    /\ UNCHANGED <<proc, pc, hasArg, iters, i, totalPackets, lostPackets, cur,
                   conn, err, r, outcome, out, handler, sigLost, parsedIP,
                   stderr>>

\* ReadFrom returns an error: always so once the transport is closed.
TaskReadErr(k) ==
    /\ proc = "running"
    /\ task[k] = "reading"
    /\ res' = [res EXCEPT ![k] = [ZeroPacket EXCEPT !.err = TRUE]]
    /\ task' = [task EXCEPT ![k] = "sending"]
    /\ UNCHANGED <<proc, pc, hasArg, iters, i, totalPackets, lostPackets, cur,
                   conn, err, replyBytes, r, outcome, out, handler, sigLost, parsedIP,
                   stderr>>

----------------------------------------------------------------------------
\* The signal goroutine (closeHandler lines 183-187) and the operator.

\* The goroutine reaches its receive <-c.
HandlerWait ==
    /\ proc = "running"
    /\ handler = "spawned"
    /\ handler' = "waiting"
    /\ UNCHANGED <<proc, pc, hasArg, iters, i, totalPackets, lostPackets, cur,
                   conn, err, task, res, replyBytes, r, outcome, out, sigLost, parsedIP,
                   stderr>>

\* SIGINT or SIGTERM arrives.  Before signal.Notify the default action ends
\* the process; after it the signal is sent on the unbuffered channel
\* without blocking, so it is dropped unless the goroutine is receiving.
Interrupt ==
    /\ proc = "running"
    /\ CASE handler = "none" ->
               /\ proc' = "killed"
               /\ UNCHANGED <<handler, sigLost>>
         [] handler = "waiting" ->
               /\ handler' = "got"
               /\ UNCHANGED <<proc, sigLost>>
         [] OTHER ->
               /\ sigLost' = TRUE
               /\ UNCHANGED <<proc, handler>>
    /\ UNCHANGED <<pc, hasArg, iters, i, totalPackets, lostPackets, cur, conn,
                   err, task, res, replyBytes, r, outcome, out, parsedIP,
                   stderr>>

\* closeHandler lines 185-186.
HandlerExit ==
    /\ proc = "running"
    /\ handler = "got"
    /\ out' = Append(out, Line(0, "Done.", 0))
    /\ proc' = "exit0"
    /\ UNCHANGED <<pc, hasArg, iters, i, totalPackets, lostPackets, cur, conn,
                   err, task, res, replyBytes, r, outcome, handler, sigLost, parsedIP,
                   stderr>>

----------------------------------------------------------------------------
Next ==
    \/ ParseArgs \/ CloseHandler \/ ParseIP \/ Banner \/ LoopTest
    \/ SleepAndCall \/ PingCount \/ Listen \/ Write \/ Spawn
    \/ SelectReceive \/ SelectTimeout \/ AfterSelect \/ CheckResult
    \/ Parse \/ PrintReply \/ Close
    \/ \E k \in ProbeIds : TaskRead(k)
    \/ \E k \in ProbeIds : TaskReadErr(k)
    \/ HandlerWait \/ Interrupt \/ HandlerExit

Spec == Init /\ [][Next]_vars

\* The main goroutine is always scheduled again, and a timer that was
\* started fires: whenever main can take a step, it eventually takes one.
FairSpec == Spec /\ WF_vars(Main)

----------------------------------------------------------------------------
TypeOK ==
    /\ proc \in {"running", "returned", "exit0", "exit1", "exit2", "killed"}
    /\ cur \in 0..MaxProbes
    /\ totalPackets \in Nat /\ lostPackets \in Nat

----------------------------------------------------------------------------
\* Vocabulary of the properties.

\* Probe k has returned to the loop of main.
Returned(k) == k < cur \/ (k = cur /\ pc = "loop")

\* The number of lines with a text in T that probe k printed.
Count(k, T) ==
    Cardinality({n \in DOMAIN out : out[n].probe = k /\ out[n].text \in T})

TimeoutText == {"Request timed out."}

ReportTexts == {"Reply from", "Could not reach host", "Received code"}

\* The number of "Request timed out." lines among the first n lines.
TimeoutsBefore(n) ==
    Cardinality({m \in 1..n : out[m].text \in TimeoutText})

\* Probe k took the timer branch of its select and left its goroutine behind.
Abandoned(k) == "Timeout" \in outcome[k]

----------------------------------------------------------------------------
\* C1: every probe that returns has resolved its race exactly once, as
\* Success (a readPacket was taken from c, a reply report was printed, no
\* "Request timed out.") or as Timeout (nothing was taken from c, "Request
\* timed out." was printed once, no reply report), never both and never
\* neither; and no probe counts a loss and also prints a reply report.
C1_ExactlyOneOutcome ==
    \A k \in ProbeIds :
       /\ ~(Abandoned(k) /\ Count(k, ReportTexts) > 0)
       /\ Returned(k) =>
             /\ Cardinality(outcome[k]) = 1
             /\ outcome[k] = {"Timeout"} =>
                   /\ Count(k, TimeoutText) = 1
                   /\ Count(k, ReportTexts) = 0
                   /\ task[k] # "done"
             /\ outcome[k] = {"Success"} =>
                   /\ Count(k, TimeoutText) = 0
                   /\ Count(k, ReportTexts) = 1
                   /\ task[k] = "done"

\* A timed-out probe followed by an answered one, both returned.
C1_Witness ==
    /\ Returned(2)
    /\ outcome[1] = {"Timeout"}
    /\ outcome[2] = {"Success"}

\* C2: in every reachable state 0 <= lostPackets <= totalPackets.
C2_LostAtMostTotal ==
    /\ 0 <= lostPackets
    /\ lostPackets <= totalPackets
    /\ 0 <= totalPackets

\* Every probe so far was lost, and an abandoned goroutine has read a late
\* packet.
C2_Witness ==
    /\ totalPackets = 2
    /\ lostPackets = 2
    /\ \E k \in ProbeIds :
          Abandoned(k) /\ task[k] = "sending" /\ ~res[k].err

\* C3: totalPackets counts the probes started: it is k once the k-th call
\* of ping has executed its first statement, whatever happens to the probe
\* afterwards, and no other step changes it.
C3_TotalCountsProbes ==
    /\ [](totalPackets = IF pc = "ping" THEN cur - 1 ELSE cur)
    /\ [][totalPackets' # totalPackets =>
             pc = "ping" /\ totalPackets' = totalPackets + 1]_vars

\* An answered probe, a timed-out probe and a probe that died of a fatal
\* error have all been counted.
C3_Witness ==
    /\ proc = "exit1"
    /\ cur = 3
    /\ totalPackets = 3
    /\ outcome[1] = {"Success"}
    /\ outcome[2] = {"Timeout"}

\* C4: lostPackets grows by exactly 1 on the timer branch of the select and
\* on no other step, so it equals the number of "Request timed out." lines
\* printed (plus the one about to be printed when sendPing has just
\* returned the timeout value).
C4_LostCountsTimeouts ==
    /\ [](lostPackets = TimeoutsBefore(Len(out))
                        + IF pc = "check" /\ r.lenMsg = TimeoutLen
                             THEN 1 ELSE 0)
    /\ [][lostPackets' # lostPackets =>
             /\ lostPackets' = lostPackets + 1
             /\ pc = "select" /\ pc' = "check"
             /\ task' = task]_vars
    /\ [][pc = "select" /\ pc' = "after" =>
             lostPackets' = lostPackets]_vars

\* The scenario of the spec: one probe, timed out.
C4_Witness ==
    /\ cur = 1 /\ pc = "loop"
    /\ totalPackets = 1
    /\ lostPackets = 1
    /\ out[Len(out)] = Line(1, "Request timed out.", 0)

\* C5: the loss printed on a "Reply from" line of probe N, when L of the
\* probes so far timed out, is ceil(L / N * 100), the quotient being taken
\* on real numbers.
C5_LossIsCeilOfRatio ==
    \A n \in DOMAIN out :
       out[n].text = "Reply from" =>
          out[n].val = Ceil(TimeoutsBefore(n) * 100, out[n].probe)

\* C6: the goroutine of a timed-out probe terminates.  Its send on c is
\* unbuffered and the only receiver of c has left the select for good, so a
\* goroutine found at that send will stay there as long as the process
\* runs; the claim therefore requires that it is never found there.
C6_AbandonedTaskTerminates ==
    \A k \in ProbeIds :
       Abandoned(k) /\ Returned(k) /\ proc = "running" =>
          task[k] # "sending"

\* C7: a goroutine abandoned by a timed-out probe changes neither counter
\* by any of its steps, and the readPacket it offers is never taken from
\* its channel, neither by its own probe nor by a later one.
C7_AbandonedTaskIsInert ==
    [][\A k \in ProbeIds :
          Abandoned(k) =>
             /\ task'[k] # "done"
             /\ (task'[k] # task[k] \/ res'[k] # res[k]) =>
                   /\ totalPackets' = totalPackets
                   /\ lostPackets' = lostPackets
                   /\ r' = r /\ out' = out]_vars

\* The goroutine of timed-out probe 1 has read a late packet and offers it,
\* and probe 2 has since been answered and has returned.
C7_Witness ==
    /\ Abandoned(1)
    /\ task[1] = "sending" /\ ~res[1].err
    /\ Returned(2)
    /\ outcome[2] = {"Success"}

\* C8: a probe never leaves its transport open, whether it returns (reply
\* or timeout) or ends in a fatal error (transmit or decode failure), and at
\* most one transport is open at any time.
C8_TransportReleased ==
    /\ Cardinality({k \in ProbeIds : conn[k] = "open"}) <= 1
    /\ \A k \in ProbeIds :
          Returned(k) \/ proc = "exit1" => conn[k] # "open"

\* C9: when probe k+1 begins (ping is called again), probe k has closed its
\* transport and printed its outcome; no two transports are open at once.
C9_ProbesSequential ==
    /\ Cardinality({k \in ProbeIds : conn[k] = "open"}) <= 1
    /\ \A k \in ProbeIds :
          k < cur =>
             /\ conn[k] = "closed"
             /\ Count(k, TimeoutText \cup ReportTexts) = 1
             /\ task[k] # "none"

\* The third probe is in its race after two complete probes.
C9_Witness ==
    /\ cur = 3
    /\ pc = "select"
    /\ conn[3] = "open"

\* C10: with -n N, N >= 0, the process always ends, and when it ends by
\* main returning from the loop, exactly N probes were run.
C10_FiniteRunTerminates ==
    /\ (iters >= 0) ~> (proc # "running")
    /\ [](hasArg /\ iters >= 0 /\ proc = "returned" =>
             totalPackets = iters /\ cur = iters)

\* The loop of -n MaxIters has ended by itself after every probe timed out.
C10_Witness ==
    /\ proc = "returned"
    /\ iters = MaxIters
    /\ totalPackets = MaxIters
    /\ lostPackets = MaxIters

\* The loop of -n 0 has ended by itself without any probe.
C10_WitnessZero ==
    /\ proc = "returned" /\ hasArg
    /\ iters = 0
    /\ cur = 0

\* The outcome lines of a probe.
OutcomeTexts == TimeoutText \cup ReportTexts

\* C11: a timeout does not end the run.  With a negative -n main never
\* returns from the loop, and after a probe has timed out the next probe is
\* started (as long as the model's bound on probes allows one, and the
\* count of -n is not exhausted) unless an interrupt or a fatal error ends
\* the process first.
C11_TimeoutIsNotAnError ==
    /\ [](hasArg /\ iters < 0 => proc # "returned")
    /\ [][pc = "select" /\ pc' = "check" => proc' = "running"]_vars
    /\ (/\ pc = "check" /\ r.lenMsg = TimeoutLen
        /\ cur < MaxProbes /\ (iters < 0 \/ cur < iters))
          ~> (pc = "ping" \/ proc # "running")

\* In the endless mode two probes have timed out and a third is running.
C11_Witness ==
    /\ iters < 0
    /\ proc = "running"
    /\ cur = 3
    /\ Abandoned(1) /\ Abandoned(2)

\* C12: a failure to listen, to transmit or to decode ends the process:
\* the probe in which it occurs prints no outcome, and from then on no
\* probe is started, no counter changes and nothing is printed.
C12_ProbeErrorsAreFatal ==
    /\ [](stderr \in {"listen", "write", "decode"} =>
             /\ proc = "exit1"
             /\ cur >= 1
             /\ Count(cur, OutcomeTexts) = 0)
    /\ [][stderr # "" =>
             /\ cur' = cur /\ pc' = pc
             /\ totalPackets' = totalPackets
             /\ lostPackets' = lostPackets
             /\ out' = out]_vars

\* The second probe died of a decode failure after the first timed out.
C12_Witness ==
    /\ stderr = "decode"
    /\ cur = 2
    /\ lostPackets = 1
    /\ proc = "exit1"

\* C13: once closeHandler has installed the handler, no interrupt signal
\* is lost: a signal is dropped only while an earlier one is being handled,
\* and once the handler has taken a signal the process ends in no other way
\* than with "Done." as its last line and status 0.
C13_InterruptLeadsToDone ==
    /\ sigLost => handler = "got"
    /\ handler = "got" /\ proc # "running" =>
          /\ proc = "exit0"
          /\ out[Len(out)] = Line(0, "Done.", 0)

\* C14: the target is resolved once, before the loop.  A probe exists only
\* after a successful resolution; a failed resolution ends the process with
\* no probe; without a target there is neither a resolution nor a probe.
C14_ResolvedOnceBeforeProbing ==
    /\ [](cur >= 1 \/ totalPackets >= 1 \/ (\E k \in ProbeIds : conn[k] # "none")
             => parsedIP = "addr")
    /\ [](stderr = "resolve" =>
             proc = "exit1" /\ cur = 0 /\ totalPackets = 0
             /\ parsedIP = "unset")
    /\ [](~hasArg =>
             parsedIP = "unset" /\ stderr = "" /\ cur = 0
             /\ totalPackets = 0)
    /\ [][parsedIP' # parsedIP =>
             parsedIP = "unset" /\ pc = "parseIP" /\ cur = 0]_vars

\* The first probe is in its race, after a successful resolution.
C14_Witness ==
    /\ parsedIP = "addr"
    /\ cur = 1
    /\ pc = "select"
    /\ conn[1] = "open"

\* The resolution has failed and the process has ended without a probe.
C14_WitnessFailure ==
    /\ stderr = "resolve"
    /\ proc = "exit1"

\* C15: when probe k prints its outcome the counters already include probe
\* k: totalPackets = k, lostPackets counts the timeout that is being
\* printed, and the loss of a "Reply from" line is computed from those
\* counters; the printing step itself changes no counter.
C15_CountersBeforePrint ==
    [][Len(out') > Len(out) /\ out'[Len(out')].probe >= 1 =>
          LET l == out'[Len(out')] IN
             /\ l.probe = cur
             /\ totalPackets = l.probe
             /\ totalPackets' = totalPackets
             /\ lostPackets' = lostPackets
             /\ l.text \in TimeoutText =>
                   lostPackets = TimeoutsBefore(Len(out)) + 1
             /\ l.text \in ReportTexts =>
                   lostPackets = TimeoutsBefore(Len(out))
             /\ l.text = "Reply from" =>
                   l.val = LossPercent(lostPackets, l.probe)]_vars

\* Probe 2 has printed its reply after probe 1 timed out.
C15_Witness ==
    /\ pc = "close"
    /\ cur = 2
    /\ lostPackets = 1
    /\ out[Len(out)].probe = 2
    /\ out[Len(out)].text = "Reply from"

\* C16: the loss computation never divides by zero: printPingReply is
\* only reached with totalPackets >= 1, the process never dies of the
\* division, and while totalPackets = 0 no loss has been computed.
C16_NoDivisionByZero ==
    /\ proc # "exit2"
    /\ pc = "print" => totalPackets >= 1
    /\ totalPackets = 0 =>
          \A n \in DOMAIN out : out[n].text # "Reply from"

\* The first loss computation: one probe counted, none lost.
C16_Witness ==
    /\ pc = "print"
    /\ proc = "running"
    /\ totalPackets = 1
    /\ lostPackets = 0

\* The bytes b are an Echo Reply to the request of createICMPMessage.
IsOwnReply(b) ==
    /\ Len(b) = Len(EchoRequest)
    /\ b[1] = ICMPTypeEchoReply /\ b[2] = 0
    /\ SubSeq(b, 5, 8) = SubSeq(EchoRequest, 5, 8)

\* C17: a probe prints "Reply from" only for the Echo Reply that carries
\* the identifier and sequence number of its own request.
C17_SuccessOnlyForOwnReply ==
    pc = "close" /\ Count(cur, {"Reply from"}) > 0 => IsOwnReply(r.msg)

\* The lines with text t that probe k printed.
LinesOf(k, t) ==
    {n \in DOMAIN out : out[n].probe = k /\ out[n].text = t}

\* C18: a received message is reported by its class: "Reply from" only
\* for type Echo Reply with code 0, "Could not reach host" for code 1,
\* "Received code <code>" for every other pair of type and code, and
\* exactly one of the three per message.
C18_ReportByClassification ==
    pc = "close" /\ "Success" \in outcome[cur] =>
       LET rm == ParseMessage(r.msg) IN
          /\ Count(cur, ReportTexts) = 1
          /\ IF rm.Type = ICMPTypeEchoReply /\ rm.Code = 0
                THEN LinesOf(cur, "Reply from") # {}
                ELSE IF rm.Code = 1
                        THEN LinesOf(cur, "Could not reach host") # {}
                        ELSE \E n \in LinesOf(cur, "Received code") :
                                out[n].val = rm.Code

\* C19: when the select takes a readPacket that carries a receive error,
\* the probe never prints an outcome and never returns: main is on its way
\* to the decoding, which fails on the empty message and is fatal; the
\* probe is not counted as lost and no further probe is started.
C19_ReceiveErrorIsFatal ==
    /\ [](r.err =>
             /\ pc \in {"after", "check", "parse"}
             /\ Count(cur, OutcomeTexts) = 0
             /\ ~Abandoned(cur)
             /\ pc = "parse" => ParseFails(r.msg)
             /\ proc # "running" => proc \in {"exit0", "exit1"})
    /\ [][r.err =>
             /\ r'.err
             /\ cur' = cur
             /\ totalPackets' = totalPackets
             /\ lostPackets' = lostPackets]_vars

\* The second probe has died of its receive error; only the first probe,
\* which timed out, was counted as lost.
C19_Witness ==
    /\ r.err
    /\ proc = "exit1" /\ stderr = "decode"
    /\ cur = 2
    /\ lostPackets = 1

====
